---- MODULE Spec2Model ----
(***************************************************************************)
(* A model of the dexter ipfs-car codec: the varint framing, the row and   *)
(* header encodings, the two writers (CarWriter, InMemoryCarBuilder) and   *)
(* the three readers (read_all_rows_from_car_reader,                       *)
(* generate_index_from_car_reader, read_block_at_offset_reader).           *)
(*                                                                         *)
(* Bytes are naturals in 0..255, a stream is a sequence of bytes together  *)
(* with a position (the number of bytes already consumed).  A u64 keeps    *)
(* its 64 bits, so that shifts past bit 63 lose bits as they do in the     *)
(* program.                                                                *)
(***************************************************************************)
EXTENDS Integers, Sequences, FiniteSets, TLC

\* ------------------------------------------------------------------ bounds
MaxRows == 2            \* rows a caller hands to one writer
MaxVarintStream == 11   \* bytes of a hand-built varint stream

\* --------------------------------------------------------------- results
Ok(v) == [ok |-> TRUE, val |-> v]
Err(e) == [ok |-> FALSE, err |-> e]
\* `let t = x; F(t)`: x is computed once
Bind(x, F(_)) == CHOOSE r \in {F(t) : t \in {x}} : TRUE

\* ------------------------------------------------------------ u64 values
\* A u64 is held as ten base-128 digits, least significant first: digit d is
\* bits 7d..7d+6, and digit 9 holds bit 63 alone.  The shifts of the codec
\* are all multiples of seven.
U64Bits == 64
Digits == 0..9
DigitMax(d) == IF d = 9 THEN 2 ELSE 128
Zero64 == [d \in Digits |-> 0]
Pow2(n) == 2 ^ n
Bit(x, i) == (x \div Pow2(i)) % 2

\* `x as u64` for a natural x below 2^31
FromNat(x) == [d \in Digits |-> IF d < 5 THEN (x \div (128 ^ d)) % 128 ELSE 0]

\* a u64 at or above Huge stands for a length no stream of the model can supply
Huge == Pow2(28)
\* `length as usize`
ToUsize(v) ==
  IF \E d \in 4..9 : v[d] # 0 THEN Huge
  ELSE v[0] + 128 * v[1] + 16384 * v[2] + 2097152 * v[3]

\* (b & 0x7F) as u64
Low7(b) == b % 128
\* b & 0x80 == 0
ContinuationClear(b) == b < 128
\* (x as u64) << shift, for a 7-bit x and shift in {0, 7, .., 63}: bits pushed
\* past bit 63 are dropped
Shl64(x, shift) ==
  [d \in Digits |-> IF d = shift \div 7 THEN x % DigitMax(d) ELSE 0]
\* a | b on seven bits
Or7(a, b) ==
  IF a = 0 THEN b
  ELSE IF b = 0 THEN a
  ELSE Bit(a, 0) + Bit(b, 0) - Bit(a, 0) * Bit(b, 0)
       + 2 * (Bit(a, 1) + Bit(b, 1) - Bit(a, 1) * Bit(b, 1))
       + 4 * (Bit(a, 2) + Bit(b, 2) - Bit(a, 2) * Bit(b, 2))
       + 8 * (Bit(a, 3) + Bit(b, 3) - Bit(a, 3) * Bit(b, 3))
       + 16 * (Bit(a, 4) + Bit(b, 4) - Bit(a, 4) * Bit(b, 4))
       + 32 * (Bit(a, 5) + Bit(b, 5) - Bit(a, 5) * Bit(b, 5))
       + 64 * (Bit(a, 6) + Bit(b, 6) - Bit(a, 6) * Bit(b, 6))
\* value | w
Or64(v, w) == [d \in Digits |-> Or7(v[d], w[d])]
\* value >> 7
Shr7(v) == [d \in Digits |-> IF d < 9 THEN v[d + 1] ELSE 0]
\* value >= 0x80
AtLeast0x80(v) == \E d \in 1..9 : v[d] # 0
\* (value & 0x7F) as u8
Low7Of(v) == v[0]

\* ----------------------------------------------------------------- varint
\* ((value & 0x7F) as u8) | 0x80
ContinuationByte(v) == Low7Of(v) + 128

RECURSIVE write_varint_to_vec(_)
write_varint_to_vec(value) ==
  IF AtLeast0x80(value)
  THEN <<ContinuationByte(value)>> \o write_varint_to_vec(Shr7(value))
  ELSE <<Low7Of(value)>>

\* shift += 7; if shift > 63 { "Varint too long" }
ShiftTooLong_Early(shift) == shift >= 63
ShiftTooLong(shift) == shift > 63

\* one read_varint loop: s is the stream, pos the bytes consumed so far
RECURSIVE read_varint_loop(_, _, _, _)
read_varint_loop(s, pos, value, shift) ==
  IF pos >= Len(s)
  THEN [ok |-> FALSE, err |-> "UnexpectedEofVarint", pos |-> pos]
  ELSE LET b == s[pos + 1]
           v2 == Or64(value, Shl64(Low7(b), shift))
       IN IF ContinuationClear(b)
          THEN [ok |-> TRUE, val |-> v2, pos |-> pos + 1]
          ELSE IF ShiftTooLong(shift + 7)
               THEN [ok |-> FALSE, err |-> "VarintTooLong", pos |-> pos + 1]
               ELSE read_varint_loop(s, pos + 1, v2, shift + 7)

read_varint(s, pos) == read_varint_loop(s, pos, Zero64, 0)

\* ------------------------------------------------------------ byte streams
\* r.read_exact(&mut buf) for a buffer of n bytes
read_exact_ZeroFill(s, pos, n) ==
  [ok |-> TRUE, pos |-> IF pos + n > Len(s) THEN Len(s) ELSE pos + n,
   val |-> [k \in 1..n |-> IF pos + k <= Len(s) THEN s[pos + k] ELSE 0]]
read_exact(s, pos, n) ==
  IF pos + n > Len(s)
  THEN [ok |-> FALSE, err |-> "Io", pos |-> pos]
  ELSE [ok |-> TRUE, val |-> SubSeq(s, pos + 1, pos + n), pos |-> pos + n]

RECURSIVE Concat(_)
Concat(ss) == IF ss = <<>> THEN <<>> ELSE Head(ss) \o Concat(Tail(ss))

\* ------------------------------------------------------------------- CBOR
\* serde_cbor writes a struct as a map keyed by the field names, a String as
\* a text string, a Vec<u8> as an array of unsigned integers and a
\* Vec<String> as an array of text strings.
MajorUint == 0
MajorText == 3
MajorArray == 4
MajorMap == 5
CborHead(major, n) ==
  IF n < 24 THEN <<major * 32 + n>>
  ELSE IF n < 256 THEN <<major * 32 + 24, n>>
  ELSE <<major * 32 + 25, n \div 256, n % 256>>
CborText(str) == CborHead(MajorText, Len(str)) \o str
CborU8Array(data) ==
  CborHead(MajorArray, Len(data))
    \o Concat([i \in 1..Len(data) |-> CborHead(MajorUint, data[i])])
CborTextArray(strs) ==
  CborHead(MajorArray, Len(strs))
    \o Concat([i \in 1..Len(strs) |-> CborText(strs[i])])

\* the head of a data item: major type and argument
ParseHead(s, pos) ==
  IF pos >= Len(s) THEN [ok |-> FALSE, err |-> "Eof"]
  ELSE Bind(s[pos + 1], LAMBDA b :
       IF b % 32 < 24
       THEN [ok |-> TRUE, major |-> b \div 32, arg |-> b % 32, pos |-> pos + 1]
       ELSE IF b % 32 = 24 /\ pos + 2 <= Len(s)
            THEN [ok |-> TRUE, major |-> b \div 32, arg |-> s[pos + 2], pos |-> pos + 2]
       ELSE IF b % 32 = 25 /\ pos + 3 <= Len(s)
            THEN [ok |-> TRUE, major |-> b \div 32,
                  arg |-> s[pos + 2] * 256 + s[pos + 3], pos |-> pos + 3]
       ELSE [ok |-> FALSE, err |-> "Unsupported"])

\* a text string (of ASCII characters)
ParseText(s, pos) ==
  Bind(ParseHead(s, pos), LAMBDA h :
  IF ~h.ok \/ h.major # MajorText THEN [ok |-> FALSE, err |-> "NotText"]
  ELSE Bind(read_exact(s, h.pos, h.arg), LAMBDA r :
       IF ~r.ok \/ \E i \in 1..Len(r.val) : r.val[i] >= 128
       THEN [ok |-> FALSE, err |-> "BadText"]
       ELSE r))

\* n unsigned integers that fit a u8
RECURSIVE ParseU8s(_, _, _, _)
ParseU8s(s, pos, n, acc) ==
  IF n = 0 THEN [ok |-> TRUE, val |-> acc, pos |-> pos]
  ELSE Bind(ParseHead(s, pos), LAMBDA h :
       IF ~h.ok \/ h.major # MajorUint \/ h.arg > 255
       THEN [ok |-> FALSE, err |-> "NotU8"]
       ELSE ParseU8s(s, h.pos, n - 1, Append(acc, h.arg)))

\* n text strings
RECURSIVE ParseTexts(_, _, _, _)
ParseTexts(s, pos, n, acc) ==
  IF n = 0 THEN [ok |-> TRUE, val |-> acc, pos |-> pos]
  ELSE Bind(ParseText(s, pos), LAMBDA t :
       IF ~t.ok THEN t
       ELSE ParseTexts(s, t.pos, n - 1, Append(acc, t.val)))

\* field names, as UTF-8 bytes
KeyField == <<107, 101, 121>>
DataField == <<100, 97, 116, 97>>
RootsField == <<114, 111, 111, 116, 115>>
VersionField == <<118, 101, 114, 115, 105, 111, 110>>

\* ---------------------------------------------------- content identifiers
CidVersion1 == 1
DagCbor == 113
Sha2_256Code == 18
DigestLen == 32
MaxHashSize == 64

\* Code::Sha2_256.digest(bytes): a fixed-length digest that is a function of
\* the bytes alone (a stand-in for SHA-256, which the model does not compute)
RECURSIVE WeightedSum(_, _)
WeightedSum(bytes, j) ==
  IF j = 0 THEN 0 ELSE (j * bytes[j] + WeightedSum(bytes, j - 1)) % 65536
RECURSIVE PlainSum(_, _)
PlainSum(bytes, j) ==
  IF j = 0 THEN 0 ELSE (bytes[j] + PlainSum(bytes, j - 1)) % 65536
Sha2_256(bytes) ==
  Bind(WeightedSum(bytes, Len(bytes)), LAMBDA a :
  Bind(PlainSum(bytes, Len(bytes)), LAMBDA b :
    SubSeq([i \in 1..DigestLen |-> (a * i + b * (i + 3) + Len(bytes) + i) % 256],
           1, DigestLen)))

\* Cid::new_v1(0x71, hash)
Cid_new_v1(codec, digest) ==
  [version |-> CidVersion1, codec |-> codec,
   hash |-> [code |-> Sha2_256Code, size |-> Len(digest), digest |-> digest]]

\* cid.to_bytes(): varint(version) varint(codec) varint(hash code)
\* varint(digest size) digest
Cid_to_bytes(c) ==
  write_varint_to_vec(FromNat(c.version)) \o write_varint_to_vec(FromNat(c.codec))
    \o write_varint_to_vec(FromNat(c.hash.code))
    \o write_varint_to_vec(FromNat(c.hash.size)) \o c.hash.digest

\* a varint as the cid crate reads it: unsigned LEB128 that must be minimal
LibVarint(s, pos) ==
  Bind(read_varint(s, pos), LAMBDA r :
  IF ~r.ok THEN [ok |-> FALSE, err |-> "InvalidCid"]
  ELSE IF r.pos - pos > 1 /\ s[r.pos] = 0 THEN [ok |-> FALSE, err |-> "InvalidCid"]
  ELSE [ok |-> TRUE, val |-> ToUsize(r.val), pos |-> r.pos])

\* Multihash::read: code, size (at most 64), digest
Multihash_read(s, pos) ==
  Bind(LibVarint(s, pos), LAMBDA code :
  IF ~code.ok THEN code
  ELSE Bind(LibVarint(s, code.pos), LAMBDA size :
       IF ~size.ok THEN size
       ELSE IF size.val > MaxHashSize THEN [ok |-> FALSE, err |-> "InvalidCid"]
       ELSE Bind(read_exact(s, size.pos, size.val), LAMBDA d :
            IF ~d.ok THEN [ok |-> FALSE, err |-> "InvalidCid"]
            ELSE [ok |-> TRUE, pos |-> d.pos,
                  val |-> [code |-> code.val, size |-> size.val, digest |-> d.val]])))

\* Cid::read_bytes: version and codec, then the multihash; the pair
\* (0x12, 0x20) opens a version 0 identifier, any version but 1 is refused
Cid_read_bytes(s, pos) ==
  Bind(LibVarint(s, pos), LAMBDA version :
  IF ~version.ok THEN version
  ELSE Bind(LibVarint(s, version.pos), LAMBDA codec :
       IF ~codec.ok THEN codec
       ELSE IF version.val = Sha2_256Code /\ codec.val = DigestLen
       THEN Bind(read_exact(s, codec.pos, DigestLen), LAMBDA d :
            IF ~d.ok THEN [ok |-> FALSE, err |-> "InvalidCid"]
            ELSE [ok |-> TRUE, pos |-> d.pos,
                  val |-> [version |-> 0, codec |-> 112,
                           hash |-> [code |-> Sha2_256Code, size |-> DigestLen,
                                     digest |-> d.val]]])
       ELSE IF version.val # CidVersion1 THEN [ok |-> FALSE, err |-> "InvalidCid"]
       ELSE Bind(Multihash_read(s, codec.pos), LAMBDA mh :
            IF ~mh.ok THEN mh
            ELSE [ok |-> TRUE, pos |-> mh.pos,
                  val |-> [version |-> CidVersion1, codec |-> codec.val,
                           hash |-> mh.val]])))

\* multibase base32 (lower case, no padding): characters as ASCII codes
Base32Char(v) == IF v < 26 THEN 97 + v ELSE 50 + (v - 26)
Base32Value(c) ==
  IF c >= 97 /\ c <= 122 THEN c - 97
  ELSE IF c >= 50 /\ c <= 55 THEN c - 50 + 26
  ELSE -1
\* element k of a sequence, zero past its end
At(seq, k) == IF k <= Len(seq) THEN seq[k] ELSE 0
\* the text of a byte string: the bits, most significant first, in groups of
\* five, the last group filled up with zero bits.  Group c starts at bit
\* 5(c-1), inside byte q and perhaps the byte after it.
Base32Encode(bytes) ==
  SubSeq([c \in 1..((8 * Len(bytes) + 4) \div 5) |->
     Base32Char(((At(bytes, ((5 * (c - 1)) \div 8) + 1) * 256
                  + At(bytes, ((5 * (c - 1)) \div 8) + 2))
                    \div Pow2(11 - ((5 * (c - 1)) % 8))) % 32)],
         1, (8 * Len(bytes) + 4) \div 5)
\* the bytes of a text: byte k starts at bit 8(k-1), inside character c and
\* the one or two characters after it; left-over bits must be zero
Base32Decode(text) ==
  Bind(SubSeq([i \in 1..Len(text) |-> Base32Value(text[i])], 1, Len(text)), LAMBDA str :
  Bind(Len(text), LAMBDA n :
     IF \E i \in 1..n : str[i] < 0 THEN Err("InvalidCidString")
     ELSE IF (n % 8) \in {1, 3, 6} THEN Err("InvalidCidString")
     ELSE IF n > 0 /\ str[n] % Pow2(5 * n - 8 * ((5 * n) \div 8)) # 0
          THEN Err("InvalidCidString")
     ELSE Ok(SubSeq([k \in 1..((5 * n) \div 8) |->
                ((At(str, ((8 * (k - 1)) \div 5) + 1) * 1024
                  + At(str, ((8 * (k - 1)) \div 5) + 2) * 32
                  + At(str, ((8 * (k - 1)) \div 5) + 3))
                      \div Pow2(7 - ((8 * (k - 1)) % 5))) % 256],
             1, (5 * n) \div 8))))

Base32Prefix == 98
\* cid.to_string() for a version 1 identifier
Cid_to_string(c) == <<Base32Prefix>> \o Base32Encode(Cid_to_bytes(c))
\* root_cid_str.parse::<Cid>()
Cid_from_str(str) ==
  IF Len(str) < 2 \/ str[1] # Base32Prefix THEN Err("InvalidCidString")
  ELSE Bind(Base32Decode(Tail(str)), LAMBDA b :
       IF ~b.ok THEN b
       ELSE Bind(Cid_read_bytes(b.val, 0), LAMBDA c :
            IF ~c.ok THEN Err("InvalidCidString") ELSE Ok(c.val)))

\* -------------------------------------------------------------- row codec
RowBytes(key, data) ==
  CborHead(MajorMap, 2) \o CborText(KeyField) \o CborText(key)
    \o CborText(DataField) \o CborU8Array(data)

\* encode_row(key, data) -> (cid, cbor_data)
encode_row(key, data) ==
  Bind(RowBytes(key, data), LAMBDA cbor_data :
    [cid |-> Cid_new_v1(DagCbor, Sha2_256(cbor_data)), bytes |-> cbor_data])

\* decode_row(bytes) -> (key, data): the map {key: text, data: [u8]} and
\* nothing after it
decode_row(bytes) ==
  Bind(ParseHead(bytes, 0), LAMBDA h :
  IF ~h.ok \/ h.major # MajorMap \/ h.arg # 2 THEN Err("MalformedRow")
  ELSE Bind(ParseText(bytes, h.pos), LAMBDA f1 :
  IF ~f1.ok \/ f1.val # KeyField THEN Err("MalformedRow")
  ELSE Bind(ParseText(bytes, f1.pos), LAMBDA k :
  IF ~k.ok THEN Err("MalformedRow")
  ELSE Bind(ParseText(bytes, k.pos), LAMBDA f2 :
  IF ~f2.ok \/ f2.val # DataField THEN Err("MalformedRow")
  ELSE Bind(ParseHead(bytes, f2.pos), LAMBDA a :
  IF ~a.ok \/ a.major # MajorArray THEN Err("MalformedRow")
  ELSE Bind(ParseU8s(bytes, a.pos, a.arg, <<>>), LAMBDA d :
  IF ~d.ok \/ d.pos # Len(bytes) THEN Err("MalformedRow")
  ELSE Ok([key |-> k.val, data |-> d.val])))))))

\* ----------------------------------------------------------- header codec
HeaderVersion == 1
\* to_vec(&CarHeader { roots, version })
HeaderBytes(roots, version) ==
  CborHead(MajorMap, 2) \o CborText(RootsField) \o CborTextArray(roots)
    \o CborText(VersionField) \o CborHead(MajorUint, version)

\* parse_header(bytes) -> (roots, version)
parse_header(bytes) ==
  Bind(ParseHead(bytes, 0), LAMBDA h :
  IF ~h.ok \/ h.major # MajorMap \/ h.arg # 2 THEN Err("MalformedHeader")
  ELSE Bind(ParseText(bytes, h.pos), LAMBDA f1 :
  IF ~f1.ok \/ f1.val # RootsField THEN Err("MalformedHeader")
  ELSE Bind(ParseHead(bytes, f1.pos), LAMBDA a :
  IF ~a.ok \/ a.major # MajorArray THEN Err("MalformedHeader")
  ELSE Bind(ParseTexts(bytes, a.pos, a.arg, <<>>), LAMBDA r :
  IF ~r.ok THEN Err("MalformedHeader")
  ELSE Bind(ParseText(bytes, r.pos), LAMBDA f2 :
  IF ~f2.ok \/ f2.val # VersionField THEN Err("MalformedHeader")
  ELSE Bind(ParseHead(bytes, f2.pos), LAMBDA v :
  IF ~v.ok \/ v.major # MajorUint \/ v.pos # Len(bytes) THEN Err("MalformedHeader")
  ELSE Ok([roots |-> r.val, version |-> v.arg])))))))

\* ----------------------------------------------------------------- writer
\* write_header: varint(header_len) + header, the roots being the buffered
\* identifiers in insertion order
write_header(cids) ==
  Bind(HeaderBytes([i \in 1..Len(cids) |-> Cid_to_string(cids[i].cid)], HeaderVersion),
       LAMBDA header_bytes :
         write_varint_to_vec(FromNat(Len(header_bytes))) \o header_bytes)

\* self.writer.seek(SeekFrom::Current(0)): the position of a sink that has
\* been written sequentially from its start
StreamPosition_Start(buf) == 0
StreamPosition(buf) == Len(buf)

\* length_bytes.len() as u64 + block_buf.len() as u64
BlockTotalLength_NoPrefix(length_bytes, block_buf) == Len(block_buf)
BlockTotalLength(length_bytes, block_buf) == Len(length_bytes) + Len(block_buf)

\* [CID bytes | row data]
BlockBuf_DataFirst(cid, block_data) == block_data \o Cid_to_bytes(cid)
BlockBuf(cid, block_data) == Cid_to_bytes(cid) \o block_data

\* the loop of finalize over self.cids
RECURSIVE write_blocks(_, _, _, _, _)
write_blocks(cids, i, buf, current_offset, idx) ==
  IF i > Len(cids) THEN [bytes |-> buf, index |-> idx]
  ELSE Bind(BlockBuf(cids[i].cid, cids[i].bytes), LAMBDA block_buf :
       Bind(write_varint_to_vec(FromNat(Len(block_buf))), LAMBDA length_bytes :
       Bind(BlockTotalLength(length_bytes, block_buf), LAMBDA block_total_length :
         write_blocks(cids, i + 1, buf \o length_bytes \o block_buf,
                      current_offset + block_total_length,
                      Append(idx, [row_key |-> cids[i].key,
                                   offset |-> current_offset,
                                   length |-> block_total_length])))))

\* finalize: the header, then every buffered block; returns the bytes of the
\* sink and the index
finalize(cids) ==
  Bind(write_header(cids), LAMBDA buf :
    write_blocks(cids, 1, buf, StreamPosition(buf), <<>>))

\* ---------------------------------------------------------------- readers
Fail(kind) == Err([kind |-> kind])

\* read_prefixed_block: a varint, then that many bytes
read_prefixed_block(s, pos) ==
  Bind(read_varint(s, pos), LAMBDA l :
  IF ~l.ok THEN [ok |-> FALSE, err |-> [kind |-> l.err]]
  ELSE Bind(read_exact(s, l.pos, ToUsize(l.val)), LAMBDA r :
       IF ~r.ok THEN [ok |-> FALSE, err |-> [kind |-> r.err]] ELSE r))

\* split_cid_and_data: the identifier at the front of a block, then the data
split_cid_and_data(block) ==
  Bind(Cid_read_bytes(block, 0), LAMBDA c :
  IF ~c.ok THEN Fail(c.err)
  ELSE Ok([cid |-> c.val, data |-> SubSeq(block, c.pos + 1, Len(block))]))

\* split_cid_and_data_from_block: the input starts with the varint prefix
split_cid_and_data_from_block(block_with_prefix) ==
  Bind(read_prefixed_block(block_with_prefix, 0), LAMBDA b :
  IF ~b.ok THEN Err(b.err) ELSE split_cid_and_data(b.val))

\* cid != expected_cid: version, codec and multihash all take part
CidDiffers_DigestOnly(cid, expected_cid) == cid.hash.digest # expected_cid.hash.digest
CidDiffers(cid, expected_cid) == cid # expected_cid

\* roots.is_empty()
RootsEmpty_Never(roots) == FALSE
RootsEmpty(roots) == roots = <<>>

\* the loop of read_all_rows_from_car_reader over the roots
RECURSIVE read_rows(_, _, _, _, _)
read_rows(s, pos, roots, i, rows) ==
  IF i > Len(roots) THEN Ok(rows)
  ELSE Bind(Cid_from_str(roots[i]), LAMBDA expected_cid :
  IF ~expected_cid.ok THEN Fail(expected_cid.err)
  ELSE Bind(read_prefixed_block(s, pos), LAMBDA block_bytes :
  IF ~block_bytes.ok THEN Err(block_bytes.err)
  ELSE Bind(split_cid_and_data(block_bytes.val), LAMBDA cd :
  IF ~cd.ok THEN cd
  ELSE IF CidDiffers(cd.val.cid, expected_cid.val)
       THEN Err([kind |-> "CidMismatch", expected |-> expected_cid.val,
                 actual |-> cd.val.cid])
  ELSE Bind(decode_row(cd.val.data), LAMBDA row :
  IF ~row.ok THEN Fail(row.err)
  ELSE read_rows(s, block_bytes.pos, roots, i + 1, Append(rows, row.val))))))

\* read_all_rows_from_car_reader, the reader being at position pos
read_all_rows_from_car_reader(s, pos) ==
  Bind(read_prefixed_block(s, pos), LAMBDA header_bytes :
  IF ~header_bytes.ok THEN Err(header_bytes.err)
  ELSE Bind(parse_header(header_bytes.val), LAMBDA h :
  IF ~h.ok THEN Fail(h.err)
  ELSE IF RootsEmpty(h.val.roots) THEN Fail("NoRoots")
  ELSE read_rows(s, header_bytes.pos, h.val.roots, 1, <<>>)))

\* read_block_with_offset: (offset, total_length, block) where total_length
\* is the position after the block minus start_offset
read_block_with_offset(s, pos, start_offset) ==
  Bind(read_prefixed_block(s, pos), LAMBDA b :
  IF ~b.ok THEN b
  ELSE [ok |-> TRUE, pos |-> b.pos,
        val |-> [offset |-> start_offset, length |-> b.pos - start_offset,
                 block |-> b.val]])

\* the loop of generate_index_from_car_reader over the roots
RECURSIVE index_blocks(_, _, _, _, _)
index_blocks(s, pos, n, current_offset, idx) ==
  IF n = 0 THEN Ok(idx)
  ELSE Bind(read_block_with_offset(s, pos, current_offset), LAMBDA b :
  IF ~b.ok THEN Err(b.err)
  ELSE Bind(split_cid_and_data(b.val.block), LAMBDA cd :
  IF ~cd.ok THEN cd
  ELSE Bind(decode_row(cd.val.data), LAMBDA row :
  IF ~row.ok THEN Fail(row.err)
  ELSE index_blocks(s, b.pos, n - 1, current_offset + b.val.length,
                    Append(idx, [row_key |-> row.val.key, offset |-> b.val.offset,
                                 length |-> b.val.length])))))

\* generate_index_from_car_reader, the reader being at position pos:
\* current_offset is taken before the header is read and is next assigned
\* after the first block
generate_index_from_car_reader(s, pos) ==
  Bind(pos, LAMBDA current_offset :
  Bind(read_prefixed_block(s, pos), LAMBDA header_bytes :
  IF ~header_bytes.ok THEN Err(header_bytes.err)
  ELSE Bind(parse_header(header_bytes.val), LAMBDA h :
  IF ~h.ok THEN Fail(h.err)
  ELSE IF RootsEmpty(h.val.roots) THEN Fail("NoRoots")
  ELSE index_blocks(s, header_bytes.pos, Len(h.val.roots), current_offset, <<>>))))

\* read_block_at_offset_reader: seek, read exactly length bytes, strip the
\* varint, split and decode
read_block_at_offset_reader(s, offset, length) ==
  Bind(read_exact(s, offset, length), LAMBDA block_buf :
  IF ~block_buf.ok THEN Fail(block_buf.err)
  ELSE Bind(split_cid_and_data_from_block(block_buf.val), LAMBDA cd :
  IF ~cd.ok THEN cd
  ELSE Bind(decode_row(cd.val.data), LAMBDA row :
  IF ~row.ok THEN Fail(row.err) ELSE Ok(row.val))))

\* ------------------------------------------------------------------ state
VARIABLES
  phase,    \* "idle" (no writer), "open" (accepting rows), "finalized"
  sink,     \* the live writer: "none", "file" (CarWriter) or "memory" (InMemoryCarBuilder)
  rows,     \* the rows the caller has handed to add_row, in order
  cids,     \* the writer's buffer of (key, cid, bytes); after finalize, what it held
  archive,  \* the bytes of the sink: the file, or the returned buffer
  index,    \* the BlockIndexEntry list finalize returned
  tamper,   \* what happened to the stored bytes after they were written
  op,       \* the last reader call and its arguments
  res,      \* what that call returned
  vphase,   \* varint bench: "idle", "raw", "encoded", "decodedRaw", "decodedEncoded"
  vstream,  \* varint bench: the byte stream
  vvalue,   \* varint bench: the value handed to write_varint_to_vec
  vres      \* varint bench: what read_varint returned

avars == <<phase, sink, rows, cids, archive, index, tamper, op, res>>
vvars == <<vphase, vstream, vvalue, vres>>
vars == <<phase, sink, rows, cids, archive, index, tamper, op, res,
          vphase, vstream, vvalue, vres>>

NoTamper == [kind |-> "none", at |-> 0]
NoOp == [name |-> "none", from |-> "none", i |-> 0, offset |-> 0, length |-> 0]
NoRes == Err([kind |-> "none"])

ArchiveIdle ==
  /\ phase = "idle"
  /\ sink = "none"
  /\ rows = <<>>
  /\ cids = <<>>
  /\ archive = <<>>
  /\ index = <<>>
  /\ tamper = NoTamper
  /\ op = NoOp
  /\ res = NoRes

VarintIdle ==
  /\ vphase = "idle"
  /\ vstream = <<>>
  /\ vvalue = Zero64
  /\ vres = Err("none")

\* the rows callers write: the keys "a" and "b", with empty, one-byte and
\* two-byte data
RowChoices ==
  { [key |-> <<97>>, data |-> <<>>],
    [key |-> <<97>>, data |-> <<49>>],
    [key |-> <<98>>, data |-> <<50, 50>>] }

\* --------------------------------------------------------- writer actions
\* CarWriter::new(path): File::create leaves an empty file
CarWriter_new ==
  /\ phase = "idle"
  /\ phase' = "open"
  /\ sink' = "file"
  /\ cids' = <<>>
  /\ archive' = <<>>
  /\ UNCHANGED <<rows, index, tamper, op, res>>
  /\ UNCHANGED vvars

\* InMemoryCarBuilder::new()
InMemoryCarBuilder_new ==
  /\ phase = "idle"
  /\ phase' = "open"
  /\ sink' = "memory"
  /\ cids' = <<>>
  /\ archive' = <<>>
  /\ UNCHANGED <<rows, index, tamper, op, res>>
  /\ UNCHANGED vvars

\* add_row(key, data), the same for both writers
add_row(key, data) ==
  /\ phase = "open"
  /\ Len(rows) < MaxRows
  /\ LET e == encode_row(key, data)
     IN cids' = Append(cids, [key |-> key, cid |-> e.cid, bytes |-> e.bytes])
  /\ rows' = Append(rows, [key |-> key, data |-> data])
  /\ UNCHANGED <<phase, sink, archive, index, tamper, op, res>>
  /\ UNCHANGED vvars

\* CarWriter::finalize: consumes the writer and leaves the bytes in the file
CarWriter_finalize ==
  /\ phase = "open"
  /\ sink = "file"
  /\ LET f == finalize(cids)
     IN /\ archive' = f.bytes
        /\ index' = f.index
  /\ phase' = "finalized"
  /\ sink' = "none"
  /\ UNCHANGED <<rows, cids, tamper, op, res>>
  /\ UNCHANGED vvars

\* InMemoryCarBuilder::finalize: consumes the builder and returns the bytes
InMemoryCarBuilder_finalize ==
  /\ phase = "open"
  /\ sink = "memory"
  /\ LET f == finalize(cids)
     IN /\ archive' = f.bytes
        /\ index' = f.index
  /\ phase' = "finalized"
  /\ sink' = "none"
  /\ UNCHANGED <<rows, cids, tamper, op, res>>
  /\ UNCHANGED vvars

\* ------------------------------------------------ what happens to archives
\* the stored bytes are cut off at byte n, before any reader runs
Truncate(n) ==
  /\ phase = "finalized"
  /\ tamper.kind = "none"
  /\ op.name = "none"
  /\ n < Len(archive)
  /\ archive' = SubSeq(archive, 1, n)
  /\ tamper' = [kind |-> "truncate", at |-> n]
  /\ UNCHANGED <<phase, sink, rows, cids, index, op, res>>
  /\ UNCHANGED vvars

\* one stored byte is altered (to the next byte value), before any reader runs
AlterByte(p) ==
  /\ phase = "finalized"
  /\ tamper.kind = "none"
  /\ op.name = "none"
  /\ p \in 1..Len(archive)
  /\ archive' = [archive EXCEPT ![p] = (archive[p] + 1) % 256]
  /\ tamper' = [kind |-> "alter", at |-> p]
  /\ UNCHANGED <<phase, sink, rows, cids, index, op, res>>
  /\ UNCHANGED vvars

\* --------------------------------------------------------- reader actions
\* read_all_rows_from_car_reader on a freshly opened reader
ReadAll ==
  /\ phase = "finalized"
  /\ op.name = "none"
  /\ op' = [NoOp EXCEPT !.name = "read_all"]
  /\ res' = read_all_rows_from_car_reader(archive, 0)
  /\ UNCHANGED <<phase, sink, rows, cids, archive, index, tamper>>
  /\ UNCHANGED vvars

\* generate_index_from_car_reader on a freshly opened reader
GenerateIndex ==
  /\ phase = "finalized"
  /\ op.name = "none"
  /\ op' = [NoOp EXCEPT !.name = "generate_index"]
  /\ res' = generate_index_from_car_reader(archive, 0)
  /\ UNCHANGED <<phase, sink, rows, cids, archive, index, tamper>>
  /\ UNCHANGED vvars

\* read_block_at_offset_reader with entry i of the writer's index, on the
\* archive as written
ReadAtWriterEntry(i) ==
  /\ phase = "finalized"
  /\ tamper.kind = "none"
  /\ op.name = "none"
  /\ i \in 1..Len(index)
  /\ op' = [name |-> "read_at", from |-> "writer", i |-> i,
            offset |-> index[i].offset, length |-> index[i].length]
  /\ res' = read_block_at_offset_reader(archive, index[i].offset, index[i].length)
  /\ UNCHANGED <<phase, sink, rows, cids, archive, index, tamper>>
  /\ UNCHANGED vvars

\* read_block_at_offset_reader with triple i of the index that
\* generate_index_from_car_reader has just returned
ReadAtIndexerEntry(i) ==
  /\ phase = "finalized"
  /\ op.name = "generate_index"
  /\ res.ok
  /\ i \in 1..Len(res.val)
  /\ op' = [name |-> "read_at", from |-> "indexer", i |-> i,
            offset |-> res.val[i].offset, length |-> res.val[i].length]
  /\ res' = read_block_at_offset_reader(archive, res.val[i].offset, res.val[i].length)
  /\ UNCHANGED <<phase, sink, rows, cids, archive, index, tamper>>
  /\ UNCHANGED vvars

\* where the stored bytes can still be cut or altered
Untouched == phase = "finalized" /\ tamper.kind = "none" /\ op.name = "none"
TruncateAt == IF Untouched THEN 0..(Len(archive) - 1) ELSE {}
AlterAt == IF Untouched THEN 1..Len(archive) ELSE {}

Init == ArchiveIdle /\ VarintIdle

Next ==
  \/ CarWriter_new
  \/ InMemoryCarBuilder_new
  \/ \E r \in RowChoices : add_row(r.key, r.data)
  \/ CarWriter_finalize
  \/ InMemoryCarBuilder_finalize
  \/ \E n \in TruncateAt : Truncate(n)
  \/ \E p \in AlterAt : AlterByte(p)
  \/ ReadAll
  \/ GenerateIndex
  \/ \E i \in 1..MaxRows : ReadAtWriterEntry(i)
  \/ \E i \in 1..MaxRows : ReadAtIndexerEntry(i)

Spec == Init /\ [][Next]_vars

\* ------------------------------------------------- properties of archives
\* the archive is as finalize wrote it; cids still holds what add_row
\* computed for each row
AsWritten == phase = "finalized" /\ tamper.kind = "none"
\* the identifier and the bytes of row i as add_row computed them
RowCid(i) == cids[i].cid
RowCbor(i) == cids[i].bytes
\* the framed block of row i: varint, identifier bytes, row bytes
RowFrame(i) ==
  LET block == Cid_to_bytes(RowCid(i)) \o RowCbor(i)
  IN write_varint_to_vec(FromNat(Len(block))) \o block
\* the header at the front of the stored bytes
StoredHeaderFrame == read_prefixed_block(archive, 0)
StoredHeader ==
  IF StoredHeaderFrame.ok THEN parse_header(StoredHeaderFrame.val) ELSE Fail("NoHeader")
\* the stored bytes of the block that index entry i points at, without the
\* varint prefix
StoredBlock(i) ==
  SubSeq(archive, index[i].offset + Len(RowFrame(i)) - Len(RowCbor(i))
                    - Len(Cid_to_bytes(RowCid(i))) + 1,
         index[i].offset + index[i].length)
\* stored byte p lies in the row bytes of block i
InRowBytes(p, i) ==
  /\ p > index[i].offset + index[i].length - Len(RowCbor(i))
  /\ p <= index[i].offset + index[i].length
\* stored byte p lies in the identifier bytes of block i
InCidBytes(p, i) ==
  /\ p > index[i].offset + index[i].length - Len(RowCbor(i)) - Len(Cid_to_bytes(RowCid(i)))
  /\ p <= index[i].offset + index[i].length - Len(RowCbor(i))

\* C1: run from the start of a written archive of at least one row,
\* generate_index_from_car_reader returns exactly the entries finalize
\* returned, in order, the first one included.
IndexConsistency ==
  (AsWritten /\ rows # <<>> /\ op.name = "generate_index") =>
    /\ res.ok
    /\ res.val = index

\* C2: read_block_at_offset_reader with an entry of the writer's index returns
\* the row added under that entry, at every position of the index.
RandomAccessWriterIndex ==
  (AsWritten /\ op.name = "read_at" /\ op.from = "writer") =>
    /\ op.offset = index[op.i].offset
    /\ op.length = index[op.i].length
    /\ index[op.i].row_key = rows[op.i].key
    /\ res = Ok(rows[op.i])
\* the second of two rows that share a key and differ in data has been read
RandomAccessWriterIndexWitness ==
  /\ AsWritten
  /\ op.name = "read_at" /\ op.from = "writer" /\ op.i = 2
  /\ rows[1].key = rows[2].key /\ rows[1].data # rows[2].data
  /\ res.ok /\ res.val = rows[2]

\* C3: read_block_at_offset_reader with any triple that
\* generate_index_from_car_reader returned for a written archive, the first
\* included, returns the corresponding written row.
RandomAccessIndexerOutput ==
  (AsWritten /\ op.name = "read_at" /\ op.from = "indexer") =>
    res = Ok(rows[op.i])

\* C4: read_all_rows_from_car_reader on a written archive of at least one row
\* returns the added rows in insertion order, and the header roots are the
\* rows' identifiers in that order.
ArchiveRoundTrip ==
  (AsWritten /\ rows # <<>>) =>
    /\ StoredHeader.ok
    /\ StoredHeader.val.roots = [i \in 1..Len(rows) |-> Cid_to_string(RowCid(i))]
    /\ op.name = "read_all" => res = Ok(rows)
\* two rows with the same key, the first with empty data, have been read back
ArchiveRoundTripWitness ==
  /\ AsWritten
  /\ op.name = "read_all"
  /\ Len(rows) = 2 /\ rows[1].key = rows[2].key /\ rows[1].data = <<>>
  /\ res.ok /\ Len(res.val) = 2

\* a byte of the row bytes of block i was altered: the identifier recomputed
\* from them differs from the root, the embedded identifier and the root are
\* as written
RowBytesAltered(i) ==
  /\ phase = "finalized"
  /\ tamper.kind = "alter"
  /\ i \in 1..Len(index)
  /\ InRowBytes(tamper.at, i)
  /\ LET cd == split_cid_and_data(StoredBlock(i))
     IN /\ cd.ok
        /\ cd.val.cid = RowCid(i)
        /\ Cid_new_v1(DagCbor, Sha2_256(cd.val.data)) # RowCid(i)
\* C5: read_all_rows_from_car_reader returns no rows when the row bytes of
\* some block have been altered, so that the identifier recomputed from them
\* differs from the root, while the embedded identifier and the root are as
\* written.
IntegrityRecomputed ==
  op.name = "read_all" =>
    \A i \in 1..Len(index) : RowBytesAltered(i) => ~res.ok

\* a character of root string i was altered, and the string is still a valid
\* identifier
RootAltered(i) ==
  /\ phase = "finalized"
  /\ tamper.kind = "alter"
  /\ i \in 1..Len(index)
  /\ tamper.at <= index[1].offset
  /\ \E h \in {StoredHeader} :
       /\ h.ok
       /\ Len(h.val.roots) = Len(rows)
       /\ h.val.roots[i] # Cid_to_string(RowCid(i))
       /\ \A j \in 1..Len(rows) :
            j # i => h.val.roots[j] = Cid_to_string(RowCid(j))
       /\ \E c \in {Cid_from_str(h.val.roots[i])} : c.ok /\ c.val # RowCid(i)
\* a byte of the identifier embedded in block i was altered, and the bytes
\* are still a valid identifier
EmbeddedAltered(i) ==
  /\ phase = "finalized"
  /\ tamper.kind = "alter"
  /\ i \in 1..Len(index)
  /\ InCidBytes(tamper.at, i)
  /\ Cid_read_bytes(StoredBlock(i), 0).ok
  /\ Cid_read_bytes(StoredBlock(i), 0).val # RowCid(i)
\* C6: when root i of the header is a valid identifier that differs from the
\* identifier embedded in block i of an otherwise intact archive,
\* read_all_rows_from_car_reader fails with a CID mismatch that names the
\* root as expected and the embedded identifier as actual, and returns no
\* rows.
IntegrityRejection ==
  op.name = "read_all" =>
  \A i \in 1..Len(index) :
    /\ RootAltered(i) =>
         res = Err([kind |-> "CidMismatch",
                    expected |-> Cid_from_str(StoredHeader.val.roots[i]).val,
                    actual |-> RowCid(i)])
    /\ EmbeddedAltered(i) =>
         res = Err([kind |-> "CidMismatch",
                    expected |-> RowCid(i),
                    actual |-> Cid_read_bytes(StoredBlock(i), 0).val])
\* the second root disagrees, the first block matched, and the read failed
IntegrityRejectionWitness ==
  /\ Len(index) = 2
  /\ RootAltered(2)
  /\ op.name = "read_all"
  /\ ~res.ok /\ res.err.kind = "CidMismatch"

\* C7: the first entry of the writer's index starts right after the framed
\* header, every entry ends where the next begins, and each entry's bytes in
\* the output are that row's varint prefix and block.
Contiguity ==
  (AsWritten /\ rows # <<>>) =>
    /\ Len(index) = Len(rows)
    /\ StoredHeaderFrame.ok /\ StoredHeader.ok
    /\ index[1].offset = StoredHeaderFrame.pos
    /\ \A i \in 1..(Len(index) - 1) :
         index[i].offset + index[i].length = index[i + 1].offset
    /\ \A i \in 1..Len(index) :
         /\ index[i].row_key = rows[i].key
         /\ SubSeq(archive, index[i].offset + 1, index[i].offset + index[i].length)
              = RowFrame(i)
    /\ index[Len(index)].offset + index[Len(index)].length = Len(archive)
\* an archive of two rows behind a header whose length takes a two-byte varint
ContiguityWitness ==
  /\ AsWritten
  /\ Len(index) = 2
  /\ index[1].offset > 129
  /\ index[2].offset = index[1].offset + index[1].length

\* C8: on an archive whose header has an empty roots list, both
\* read_all_rows_from_car_reader and generate_index_from_car_reader fail with
\* the no-roots error, and neither ever returns an empty list.
EmptyRootsRejection ==
  (phase = "finalized" /\ op.name \in {"read_all", "generate_index"}) =>
    /\ res.ok => res.val # <<>>
    /\ \A h \in {StoredHeader} :
         (h.ok /\ h.val.roots = <<>>) => res = Fail("NoRoots")
\* the archive finalize writes when add_row was never called has been indexed
EmptyRootsRejectionWitness ==
  /\ AsWritten
  /\ rows = <<>>
  /\ archive # <<>>
  /\ op.name = "generate_index"
  /\ res = Fail("NoRoots")

\* C9: on a written archive of at least one row cut off before its end, both
\* read_all_rows_from_car_reader and generate_index_from_car_reader return an
\* error.
TruncationRejection ==
  (phase = "finalized" /\ tamper.kind = "truncate" /\ rows # <<>>
     /\ op.name \in {"read_all", "generate_index"}) =>
    ~res.ok
\* an archive cut in the last byte of its last block has been read
TruncationRejectionWitness ==
  /\ phase = "finalized"
  /\ tamper.kind = "truncate"
  /\ Len(index) = 2
  /\ tamper.at = index[2].offset + index[2].length - 1
  /\ op.name = "read_all"
  /\ ~res.ok

\* ------------------------------------------------------- varint test bench
VarintBytes == {127, 128, 255}

\* the u64 values written: 2^k - 1, 2^k, and alternating bits from bit k up
BitIdx == 0..(U64Bits - 1)
FromBits(bits) ==
  [d \in Digits |->
     bits[7 * d] + (IF d = 9 THEN 0 ELSE
       2 * bits[7 * d + 1] + 4 * bits[7 * d + 2] + 8 * bits[7 * d + 3]
       + 16 * bits[7 * d + 4] + 32 * bits[7 * d + 5] + 64 * bits[7 * d + 6])]
Ones(k) == FromBits([i \in BitIdx |-> IF i < k THEN 1 ELSE 0])
OneAt(k) == FromBits([i \in BitIdx |-> IF i = k THEN 1 ELSE 0])
Stripes(k) == FromBits([i \in BitIdx |-> IF i >= k /\ (i - k) % 2 = 0 THEN 1 ELSE 0])
VarintValues ==
  {Ones(k) : k \in 0..U64Bits} \cup {OneAt(k) : k \in BitIdx}
    \cup {Stripes(k) : k \in BitIdx}

\* a caller builds a byte stream, one byte at a time: continuation bytes, then
\* possibly a terminating byte and one byte after it (which read_varint must
\* leave unread)
TrailingBytes(s) ==
  IF \E k \in 1..Len(s) : s[k] < 128
  THEN Len(s) - (CHOOSE k \in 1..Len(s) : s[k] < 128 /\ \A j \in 1..(k - 1) : s[j] >= 128)
  ELSE -1
PushByte(b) ==
  /\ vphase \in {"idle", "raw"}
  /\ Len(vstream) < MaxVarintStream
  /\ TrailingBytes(vstream) < 1
  /\ vstream' = Append(vstream, b)
  /\ vphase' = "raw"
  /\ UNCHANGED <<vvalue, vres>>
  /\ UNCHANGED avars

\* a writer encodes a length
EncodeValue(v) ==
  /\ vphase = "idle"
  /\ vvalue' = v
  /\ vstream' = write_varint_to_vec(v)
  /\ vphase' = "encoded"
  /\ UNCHANGED vres
  /\ UNCHANGED avars

\* read_varint on the raw stream
DecodeRaw ==
  /\ vphase = "raw"
  /\ vres' = read_varint(vstream, 0)
  /\ vphase' = "decodedRaw"
  /\ UNCHANGED <<vstream, vvalue>>
  /\ UNCHANGED avars

\* read_varint on the bytes write_varint_to_vec produced
DecodeEncoded ==
  /\ vphase = "encoded"
  /\ vres' = read_varint(vstream, 0)
  /\ vphase' = "decodedEncoded"
  /\ UNCHANGED <<vstream, vvalue>>
  /\ UNCHANGED avars

VarintInit == VarintIdle /\ ArchiveIdle

VarintNext ==
  \/ \E b \in VarintBytes : PushByte(b)
  \/ \E v \in VarintValues : EncodeValue(v)
  \/ DecodeRaw
  \/ DecodeEncoded

VarintSpec == VarintInit /\ [][VarintNext]_vars

\* the first byte of s whose continuation bit is clear (0 when there is none)
FirstClear(s) ==
  IF \E k \in 1..Len(s) : s[k] < 128
  THEN CHOOSE k \in 1..Len(s) : s[k] < 128 /\ \A j \in 1..(k - 1) : s[j] >= 128
  ELSE 0
ExpectedDigit(s, k, d) ==
  IF d + 1 <= k THEN (IF d = 9 THEN (s[d + 1] % 128) % 2 ELSE s[d + 1] % 128) ELSE 0
\* raw streams: read_varint returns at the first byte whose continuation bit
\* is clear, with bits 7d..7d+6 of the value (as far as they lie below bit 64)
\* equal to the low seven bits of byte d; it fails with an unexpected-EOF
\* error when the stream ends first, with a too-long error when the first ten
\* bytes all carry the continuation bit, and never consumes more than ten
\* bytes
VarintDecodeRawOk ==
  vphase = "decodedRaw" =>
    LET k == FirstClear(vstream) IN
    /\ vres.pos <= 10
    /\ (k >= 1 /\ k <= 10) =>
         /\ vres.ok
         /\ vres.pos = k
         /\ \A d \in Digits : vres.val[d] = ExpectedDigit(vstream, k, d)
    /\ ((k = 0 \/ k > 10) /\ Len(vstream) >= 10) =>
         /\ ~vres.ok
         /\ vres.err = "VarintTooLong"
         /\ vres.pos = 10
    /\ (k = 0 /\ Len(vstream) < 10) =>
         /\ ~vres.ok
         /\ vres.err = "UnexpectedEofVarint"
\* round trip: for every u64 value v, write_varint_to_vec(v) is 1 to 10
\* bytes and read_varint returns v from them, consuming all of them
VarintRoundTripOk ==
  vphase = "decodedEncoded" =>
    /\ Len(vstream) \in 1..10
    /\ vres.ok
    /\ vres.val = vvalue
    /\ vres.pos = Len(vstream)
\* C10: read_varint accumulates the low seven bits of each byte into a u64
\* and returns at the first byte without continuation bit; it fails on a
\* stream that ends early and on ten continuation bytes, never consumes more
\* than ten bytes, and returns v from the bytes of write_varint_to_vec(v).
VarintDecoding == VarintDecodeRawOk /\ VarintRoundTripOk

\* a ten-byte encoding (a value with bit 63 set) has been decoded
VarintWitness ==
  /\ vphase = "decodedEncoded"
  /\ Len(vstream) = 10
  /\ vres.ok
  /\ vres.val[9] = 1
====
